---- MODULE Spec2Model ----
(***************************************************************************)
(* Model of remove_duplications_elasticsearch: main.py (main,              *)
(* get_bulk_actions, get_value_from_dict, fetch_all_documents,             *)
(* remove_documents), utils.py (str_to_bool) and config.py.                *)
(*                                                                         *)
(* One run of main is one process; runs follow each other against the same *)
(* index.  The index client (helpers.scan, helpers.bulk, indices.refresh)  *)
(* is the environment: each of its calls either returns or raises.         *)
(*                                                                         *)
(* Python strings that the code parses (DRY_RUN, the dotted comparison     *)
(* field) are tuples of one-character strings.  A JSON value of a document *)
(* is tagged: Scalar(s) for a hashable scalar, Dict(f) for a mapping       *)
(* (a Python dict, which is unhashable).                                   *)
(***************************************************************************)
EXTENDS Integers, Sequences, FiniteSets, TLC

\* Number of documents the index may hold at the start.
MaxDocs == 3

----------------------------------------------------------------------------
\* Values, documents, configuration

Scalar(s) == [kind |-> "scalar", v |-> s]
Dict(f) == [kind |-> "dict", items |-> f]

\* Python: hash(x) raises TypeError for a dict; a str is hashable.
Hashable(x) == x.kind = "scalar"

DocIds == {ToString(i) : i \in 1..MaxDocs}

\* config.ES_INDEX and config.DOCUMENT_COMPARISON_FIELD ("j.b")
ES_INDEX == "jobs"
DOCUMENT_COMPARISON_FIELD == <<"j", ".", "b">>

\* The _source mappings a document may have.
SrcA == Dict(<<"j">> :> Dict(<<"b">> :> Scalar("A")))
SrcB == Dict(<<"j">> :> Dict(<<"b">> :> Scalar("B") @@ <<"c">> :> Scalar("A")))
SrcNoLeaf == Dict(<<"j">> :> Dict(<<"c">> :> Scalar("A")))
SrcScalarMid == Dict(<<"j">> :> Scalar("A"))
SrcNested == Dict(<<"j">> :> Dict(<<"b">> :> Dict(<<"x">> :> Scalar("A"))))
Sources == {SrcA, SrcB, SrcNoLeaf, SrcScalarMid, SrcNested}

\* The index contents: documents with pairwise distinct _id.
IndexContents ==
    UNION {{{[_id |-> i, _source |-> f[i]] : i \in S} : f \in [S -> Sources]} :
           S \in SUBSET DocIds}

\* config.py line 11: the value of DRY_RUN when the variable is not set.
DefaultDryRun == <<"f", "a", "l", "s", "e">>

\* Values of the DRY_RUN environment variable.
DryRunInputs ==
    { DefaultDryRun,
      <<" ", "T", "r", "u", "e", "\n">>,
      <<"Y">>,
      <<"N", "o", " ">>,
      <<"m", "a", "y", "b", "e">>,
      <<"t", " ", "r", "u", "e">> }

----------------------------------------------------------------------------
\* utils.py

Upper == <<"A","B","C","D","E","F","G","H","I","J","K","L","M",
           "N","O","P","Q","R","S","T","U","V","W","X","Y","Z">>
LowerCase == <<"a","b","c","d","e","f","g","h","i","j","k","l","m",
               "n","o","p","q","r","s","t","u","v","w","x","y","z">>
Whitespace == {" ", "\t", "\n", "\r"}

\* str.lower()
lower(s) ==
    [i \in 1..Len(s) |->
        IF \E k \in 1..Len(Upper) : Upper[k] = s[i]
        THEN LowerCase[CHOOSE k \in 1..Len(Upper) : Upper[k] = s[i]]
        ELSE s[i]]

RECURSIVE lstrip(_)
lstrip(s) == IF s # <<>> /\ Head(s) \in Whitespace THEN lstrip(Tail(s)) ELSE s

RECURSIVE rstrip(_)
rstrip(s) ==
    IF s # <<>> /\ s[Len(s)] \in Whitespace
    THEN rstrip(SubSeq(s, 1, Len(s) - 1))
    ELSE s

\* str.strip()
strip(s) == rstrip(lstrip(s))

true_values == { <<"t","r","u","e">>, <<"y","e","s">>, <<"y">>, <<"1">>, <<"t">> }
false_values == { <<"f","a","l","s","e">>, <<"n","o">>, <<"n">>, <<"0">>, <<"f">> }

\* str_to_bool with the two lists exchanged.
str_to_bool_swapped(string) ==
    LET normalized == lower(strip(string)) IN
    IF normalized \in false_values THEN "True"
    ELSE IF normalized \in true_values THEN "False"
    ELSE "ValueError"

\* str_to_bool: "True", "False", or the exception it raises.
str_to_bool(string) ==
    LET normalized == lower(strip(string)) IN
    IF normalized \in true_values THEN "True"
    ELSE IF normalized \in false_values THEN "False"
    ELSE "ValueError"

----------------------------------------------------------------------------
\* main.py: get_value_from_dict

\* str.split(sep): the pieces between the separators.
RECURSIVE split(_, _)
split(s, sep) ==
    IF \E i \in 1..Len(s) : s[i] = sep
    THEN LET i == CHOOSE k \in 1..Len(s) :
                     s[k] = sep /\ \A m \in 1..(k - 1) : s[m] # sep
         IN <<SubSeq(s, 1, i - 1)>> \o split(SubSeq(s, i + 1, Len(s)), sep)
    ELSE <<s>>

Returned(x) == [exc |-> "none", value |-> x]
Raised(e) == [exc |-> e, value |-> Scalar("")]

\* The loop written with dict.get: a missing key yields None, nothing is raised.
RECURSIVE walk_get(_, _)
walk_get(keys, data) ==
    IF keys = <<>> THEN Returned(data)
    ELSE IF data.kind # "dict" THEN Returned(Scalar("None"))
    ELSE IF Head(keys) \in DOMAIN data.items
         THEN walk_get(Tail(keys), data.items[Head(keys)])
         ELSE Returned(Scalar("None"))

\* The loop of lines 166-172 over the remaining keys.
RECURSIVE walk(_, _)
walk(keys, data) ==
    IF keys = <<>> THEN Returned(data)
    ELSE IF data.kind # "dict" THEN Raised("AttributeError")
    ELSE IF Head(keys) \in DOMAIN data.items
         THEN walk(Tail(keys), data.items[Head(keys)])
         ELSE Raised("ValueError")

get_value_from_dict(dot_notation_string, data) ==
    walk(split(dot_notation_string, "."), data)

----------------------------------------------------------------------------
\* State

VARIABLES
    index,          \* the documents the index holds
    DRY_RUN,        \* config.DRY_RUN of the current run
    pc,             \* where the current run of main is
    remaining,      \* documents the scan generator has not yielded yet
    scanned,        \* documents the scan generator has yielded, in order
    seen_values,    \* get_bulk_actions: seen_values
    bulk_actions,   \* get_bulk_actions: bulk_actions
    exceptions,     \* get_bulk_actions: exceptions
    bulk_errors,    \* remove_documents: bulk_errors
    calls,          \* calls this run issued to the index client, in order
    submitted,      \* the actions handed to helpers.bulk
    logged,         \* the records the dry-run branch logged
    outcome,        \* how the run ended
    scan_failed,    \* whether helpers.scan raised: "none", "call", "iteration"
    carried,        \* the exceptions an ExceptionGroup was raised with
    index0,         \* the index when the current run started
    prev            \* the outcome of the previous run

vars == <<index, DRY_RUN, pc, remaining, scanned, seen_values, bulk_actions,
          exceptions, bulk_errors, calls, submitted, logged, outcome,
          scan_failed, carried, index0, prev>>

runVars == <<remaining, scanned, seen_values, bulk_actions, exceptions,
             bulk_errors, calls, submitted, logged, carried>>

\* The locals of a run before main has done anything.
Fresh ==
    /\ remaining = {}
    /\ scanned = <<>>
    /\ seen_values = {}
    /\ bulk_actions = <<>>
    /\ exceptions = <<>>
    /\ bulk_errors = <<>>
    /\ calls = <<>>
    /\ submitted = <<>>
    /\ logged = <<>>
    /\ carried = <<>>

Init ==
    /\ index \in IndexContents
    /\ index0 = index
    /\ DRY_RUN = DefaultDryRun
    /\ pc = "start"
    /\ outcome = "running"
    /\ scan_failed = "none"
    /\ prev = "none"
    /\ Fresh

\* The run ends with the exception or result e.
End(e) == pc' = "done" /\ outcome' = e

----------------------------------------------------------------------------
\* main.py: main, lines 175-205

\* The environment check, the client, and the call of fetch_all_documents.
\* helpers.scan is called once; the documents are iterated later, by
\* get_bulk_actions.  tee(documents, 1) consumes nothing.
StartRun ==
    /\ pc = "start"
    /\ \E dry \in DryRunInputs, envComplete \in BOOLEAN, scanRaises \in BOOLEAN :
        /\ DRY_RUN' = dry
        /\ IF ~envComplete
           THEN /\ End("FailedToGetAllEnvironmentVariables")
                /\ UNCHANGED <<calls, remaining, scan_failed>>
           ELSE /\ calls' = Append(calls, "scan")
                /\ IF scanRaises
                   THEN /\ End("FailedToFetchDocumentsFromIndex")
                        /\ scan_failed' = "call"
                        /\ UNCHANGED remaining
                   ELSE /\ remaining' = index
                        /\ pc' = "scanning"
                        /\ UNCHANGED <<outcome, scan_failed>>
    /\ UNCHANGED <<index, scanned, seen_values, bulk_actions, exceptions,
                   bulk_errors, submitted, logged, carried, index0, prev>>

----------------------------------------------------------------------------
\* main.py: get_bulk_actions

\* line 106
IsDuplicate(value, seen) == value \in seen

\* The delete action with the index name in the place of the document id.
DeleteActionWrongId(idx, doc) == [_op_type |-> "delete", _index |-> idx, _id |-> idx]

\* lines 108-112
DeleteAction(idx, doc) == [_op_type |-> "delete", _index |-> idx, _id |-> doc._id]

\* lines 99-103: the exception instance appended for document doc
Caught(e, doc) == [exc |-> e, doc |-> doc._id]

\* One iteration of the loop of lines 92-115 on the next document the scan
\* yields.  An unhashable value makes the membership test of line 106 raise
\* TypeError outside the try, which ends get_bulk_actions and main.
ScanStep ==
    /\ pc = "scanning"
    /\ \E doc \in remaining :
        LET r == get_value_from_dict(DOCUMENT_COMPARISON_FIELD, doc._source) IN
        /\ remaining' = remaining \ {doc}
        /\ scanned' = Append(scanned, doc)
        /\ IF r.exc # "none"
           THEN /\ exceptions' = Append(exceptions, Caught(r.exc, doc))
                /\ UNCHANGED <<bulk_actions, seen_values, pc, outcome>>
           ELSE IF ~Hashable(r.value)
           THEN /\ End("TypeError")
                /\ UNCHANGED <<bulk_actions, seen_values, exceptions>>
           ELSE IF IsDuplicate(r.value, seen_values)
           THEN /\ bulk_actions' = Append(bulk_actions, DeleteAction(ES_INDEX, doc))
                /\ UNCHANGED <<seen_values, exceptions, pc, outcome>>
           ELSE /\ seen_values' = seen_values \cup {r.value}
                /\ UNCHANGED <<bulk_actions, exceptions, pc, outcome>>
    /\ UNCHANGED <<index, DRY_RUN, bulk_errors, calls, submitted, logged,
                   scan_failed, carried, index0, prev>>

\* The scan generator raises while line 92 iterates it: no try encloses the
\* loop, so the error leaves get_bulk_actions and main as it is.
ScanRaise ==
    /\ pc = "scanning"
    /\ End("TransportError")
    /\ scan_failed' = "iteration"
    /\ UNCHANGED <<index, DRY_RUN, index0, prev>>
    /\ UNCHANGED runVars

\* json.dumps(action, indent=4): the members in insertion order.
json_dumps(action) ==
    << <<"_op_type", action._op_type>>, <<"_index", action._index>>,
       <<"_id", action._id>> >>

\* The generator is exhausted: lines 117-123 of get_bulk_actions, then lines
\* 213-225 of main.
ScanEnd ==
    /\ pc = "scanning"
    /\ remaining = {}
    /\ IF Len(exceptions) > 0
       THEN /\ End("ExceptionGroup: failed to get all documents comparable field")
            /\ carried' = exceptions
            /\ UNCHANGED logged
       ELSE IF Len(bulk_actions) = 0
       THEN End("NoDuplicates") /\ UNCHANGED <<carried, logged>>
       ELSE IF str_to_bool(DRY_RUN) = "ValueError"
       THEN End("ValueError") /\ UNCHANGED <<carried, logged>>
       ELSE IF str_to_bool(DRY_RUN) = "True"
       THEN /\ logged' = [i \in 1..Len(bulk_actions) |-> json_dumps(bulk_actions[i])]
            /\ End("DryRun")
            /\ UNCHANGED carried
       ELSE /\ pc' = "bulk"
            /\ UNCHANGED <<outcome, carried, logged>>
    /\ UNCHANGED <<index, DRY_RUN, remaining, scanned, seen_values, bulk_actions,
                   exceptions, bulk_errors, calls, submitted, scan_failed, index0,
                   prev>>

----------------------------------------------------------------------------
\* main.py: remove_documents

\* The index after a batch in which the actions at the positions in failed
\* were not applied.
AfterBulk(idx, actions, failed) ==
    {d \in idx : ~\E i \in (1..Len(actions)) \ failed : actions[i]._id = d._id}

\* The actions at the positions in failed, in order.
RECURSIVE Select(_, _, _)
Select(actions, failed, i) ==
    IF i > Len(actions) THEN <<>>
    ELSE (IF i \in failed THEN <<actions[i]>> ELSE <<>>) \o Select(actions, failed, i + 1)

\* helpers.bulk, lines 47-52: the batch is sent once; the call returns what
\* line 47 binds to bulk_errors, or raises.
Bulk ==
    /\ pc = "bulk"
    /\ calls' = Append(calls, "bulk")
    /\ submitted' = bulk_actions
    /\ \E failed \in SUBSET (1..Len(bulk_actions)), raises \in BOOLEAN :
        /\ index' = AfterBulk(index, bulk_actions, failed)
        /\ IF raises
           THEN End("BulkError") /\ UNCHANGED bulk_errors
           ELSE /\ bulk_errors' = Select(bulk_actions, failed, 1)
                /\ pc' = "refresh"
                /\ UNCHANGED outcome
    /\ UNCHANGED <<DRY_RUN, remaining, scanned, seen_values, bulk_actions,
                   exceptions, logged, scan_failed, carried, index0, prev>>

\* lines 54-65: the refresh, then the check of bulk_errors.
Refresh ==
    /\ pc = "refresh"
    /\ calls' = Append(calls, "refresh")
    /\ \E raises \in BOOLEAN :
        IF raises
        THEN End("FailedToRefreshIndex") /\ UNCHANGED carried
        ELSE IF Len(bulk_errors) > 0
        THEN /\ End("ExceptionGroup: faild to bulk some of the remove actions")
             /\ carried' = bulk_errors
        ELSE End("Removed") /\ UNCHANGED carried
    /\ UNCHANGED <<index, DRY_RUN, remaining, scanned, seen_values, bulk_actions,
                   exceptions, bulk_errors, submitted, logged, scan_failed, index0,
                   prev>>

----------------------------------------------------------------------------
\* The job is run again on the same index, with no write in between.
NextRun ==
    /\ pc = "done"
    /\ pc' = "start"
    /\ outcome' = "running"
    /\ prev' = outcome
    /\ index0' = index
    /\ remaining' = {}
    /\ scanned' = <<>>
    /\ seen_values' = {}
    /\ bulk_actions' = <<>>
    /\ exceptions' = <<>>
    /\ bulk_errors' = <<>>
    /\ calls' = <<>>
    /\ submitted' = <<>>
    /\ logged' = <<>>
    /\ carried' = <<>>
    /\ scan_failed' = "none"
    /\ DRY_RUN' = DefaultDryRun
    /\ UNCHANGED index

Next == StartRun \/ ScanStep \/ ScanRaise \/ ScanEnd \/ Bulk \/ Refresh \/ NextRun

Spec == Init /\ [][Next]_vars

----------------------------------------------------------------------------
\* What the claims speak of, stated without the operators of the code.

Range(seq) == {seq[i] : i \in 1..Len(seq)}

\* The comparison key path, as segments.
PathSegments == << <<"j">>, <<"b">> >>

RECURSIVE PathIn(_, _)
PathIn(segs, data) ==
    \/ segs = <<>>
    \/ /\ data.kind = "dict"
       /\ Head(segs) \in DOMAIN data.items
       /\ PathIn(Tail(segs), data.items[Head(segs)])

RECURSIVE ValueAt(_, _)
ValueAt(segs, data) ==
    IF segs = <<>> THEN data ELSE ValueAt(Tail(segs), data.items[Head(segs)])

\* The document has the comparison path; the value stored there.
HasPath(doc) == PathIn(PathSegments, doc._source)
KeyValue(doc) == ValueAt(PathSegments, doc._source)
IsMapping(doc) == HasPath(doc) /\ KeyValue(doc).kind = "dict"

\* The ids of the documents of seq, from position i on, whose key value is
\* the key value of a document at an earlier position.
RECURSIVE DupIds(_, _)
DupIds(seq, i) ==
    IF i > Len(seq) THEN <<>>
    ELSE (IF \E j \in 1..(i - 1) : KeyValue(seq[j]) = KeyValue(seq[i])
          THEN <<seq[i]._id>> ELSE <<>>) \o DupIds(seq, i + 1)

\* One delete action for each of them, in scan order.
ExpectedActions(seq) ==
    LET ids == DupIds(seq, 1) IN
    [k \in 1..Len(ids) |-> [_op_type |-> "delete", _index |-> "jobs", _id |-> ids[k]]]

\* The failing documents of seq, in scan order.
FailingIds(seq) ==
    LET bad == SelectSeq(seq, LAMBDA d : ~HasPath(d)) IN
    [k \in 1..Len(bad) |-> bad[k]._id]

\* The documents of seq that have the comparison path.
Valid(seq) == SelectSeq(seq, HasPath)

\* The documents the loop body has run on to its end.
Processed ==
    IF outcome = "TypeError" THEN SubSeq(scanned, 1, Len(scanned) - 1) ELSE scanned

\* get_bulk_actions was given a sequence that the scan delivered to its end
\* or until get_bulk_actions itself raised, and has returned or raised.
Finished ==
    /\ pc \in {"bulk", "refresh", "done"}
    /\ scan_failed = "none"
    /\ outcome # "FailedToGetAllEnvironmentVariables"

ExtractionGroup == "ExceptionGroup: failed to get all documents comparable field"
BulkGroup == "ExceptionGroup: faild to bulk some of the remove actions"

\* The DRY_RUN inputs by the form the configuration surface gives them.
DryTrue == { <<" ", "T", "r", "u", "e", "\n">>, <<"Y">> }
DryFalse == { <<"f", "a", "l", "s", "e">>, <<"N", "o", " ">> }
DryInvalid == { <<"m", "a", "y", "b", "e">>, <<"t", " ", "r", "u", "e">> }

----------------------------------------------------------------------------
\* C1: when every document of the scanned sequence has the comparison path,
\* get_bulk_actions returns, in scan order, exactly one delete action for each
\* document whose key value is that of an earlier document, and none for the
\* first document of a key value: as many actions as documents minus
\* distinct key values.
C1_FirstOccurrenceLaw ==
    (Finished /\ \A d \in index0 : HasPath(d)) =>
        /\ outcome \notin {"TypeError", ExtractionGroup}
        /\ remaining = {}
        /\ bulk_actions = ExpectedActions(scanned)
        /\ Len(bulk_actions) =
             Len(scanned) - Cardinality({KeyValue(d) : d \in Range(scanned)})

\* C2: a dry run issues no bulk and no refresh call and leaves the index as
\* it was, and the list it reports is the list of delete actions of the
\* scanned sequence, which is the list a run that is not dry submits.
C2_DryRunGuarantee ==
    /\ DRY_RUN \in DryTrue =>
          /\ "bulk" \notin Range(calls)
          /\ "refresh" \notin Range(calls)
          /\ submitted = <<>>
          /\ index = index0
    /\ outcome = "DryRun" =>
          /\ DRY_RUN \in DryTrue
          /\ logged = [k \in 1..Len(ExpectedActions(scanned)) |->
                         << <<"_op_type", "delete">>, <<"_index", "jobs">>,
                            <<"_id", ExpectedActions(scanned)[k]._id>> >>]
    /\ "bulk" \in Range(calls) =>
          /\ DRY_RUN \in DryFalse
          /\ submitted = ExpectedActions(scanned)
    /\ (/\ pc = "done"
        /\ Finished
        /\ \A d \in index0 : HasPath(d) /\ ~IsMapping(d)
        /\ ExpectedActions(scanned) # <<>>) =>
          /\ DRY_RUN \in DryTrue => outcome = "DryRun"
          /\ DRY_RUN \in DryFalse => "bulk" \in Range(calls)

C2_Witness ==
    /\ pc = "done"
    /\ outcome = "DryRun"
    /\ DRY_RUN = <<" ", "T", "r", "u", "e", "\n">>
    /\ Len(logged) = 2
    /\ index = index0

\* C3: when k >= 1 documents of the sequence lack the comparison path,
\* get_bulk_actions runs on every document before it raises, and raises one
\* group carrying the k failures in scan order; when k = 0 it raises nothing.
C3_CollectThenFail ==
    Finished =>
        IF \E d \in index0 : ~HasPath(d)
        THEN /\ remaining = {}
             /\ outcome = ExtractionGroup
             /\ Len(carried) = Cardinality({d \in index0 : ~HasPath(d)})
             /\ [k \in 1..Len(carried) |-> carried[k].doc] = FailingIds(scanned)
        ELSE outcome \notin {"TypeError", ExtractionGroup}

\* C4: a document that lacks the comparison path gets no delete action and
\* adds nothing to the seen values, and the other documents are classified as
\* they would be with the failing documents removed from the sequence.
C4_FailureIsolation ==
    /\ \A i \in 1..Len(bulk_actions) :
          \A d \in Range(scanned) : d._id = bulk_actions[i]._id => HasPath(d)
    /\ seen_values = {KeyValue(d) : d \in Range(Valid(Processed))}
    /\ bulk_actions = ExpectedActions(Valid(Processed))
    /\ [k \in 1..Len(exceptions) |-> exceptions[k].doc] = FailingIds(scanned)

C4_Witness ==
    /\ pc = "done"
    /\ outcome = ExtractionGroup
    /\ Len(exceptions) = 1
    /\ Len(scanned) = 3
    /\ ~HasPath(scanned[2])
    /\ Len(bulk_actions) = 1
    /\ bulk_actions[1]._id = scanned[3]._id

C6_Idempotent ==
    prev = "Removed" =>
        /\ bulk_actions = <<>>
        /\ "bulk" \notin Range(calls)
        /\ pc \notin {"bulk", "refresh"}
        /\ (pc = "done" /\ Finished) => outcome = "NoDuplicates"

C6_Witness ==
    /\ prev = "Removed"
    /\ pc = "done"
    /\ outcome = "NoDuplicates"
    /\ Len(scanned) = 2

\* C7: when the scan fails, at the call or while the documents are iterated,
\* the run ends with FailedToFetchDocumentsFromIndex and issues no bulk and
\* no refresh call.
C7_ScanFailureWrapped ==
    (pc = "done" /\ scan_failed # "none") =>
        /\ outcome = "FailedToFetchDocumentsFromIndex"
        /\ "bulk" \notin Range(calls)
        /\ "refresh" \notin Range(calls)

\* C8: a run whose DRY_RUN is none of the accepted forms ends with the
\* configuration error of str_to_bool and issues no bulk call, also when the
\* index holds no duplicates.
C8_InvalidDryRunRejected ==
    (/\ pc = "done"
     /\ Finished
     /\ DRY_RUN \in DryInvalid
     /\ \A d \in index0 : HasPath(d) /\ ~IsMapping(d)) =>
        /\ outcome = "ValueError"
        /\ "bulk" \notin Range(calls)

\* C9: a nested mapping stored at the comparison path is compared like any
\* value: the scan does not raise on it, every document is processed, and a
\* document whose mapping equals that of an earlier document gets a delete
\* action.
C9_NestedMappingCompared ==
    (Finished /\ \E i \in 1..Len(scanned) : IsMapping(scanned[i])) =>
        /\ outcome # "TypeError"
        /\ remaining = {}
        /\ \A i \in 1..Len(scanned) :
              (IsMapping(scanned[i]) /\
               \E j \in 1..(i - 1) :
                  IsMapping(scanned[j]) /\ KeyValue(scanned[j]) = KeyValue(scanned[i]))
              => \E a \in Range(bulk_actions) : a._id = scanned[i]._id

\* C10: a run in which a scanned document fails key extraction ends with the
\* aggregated extraction error, issues no bulk and no refresh call, leaves
\* the index as it was, and reports nothing.
C10_ExtractionFailureEndsRun ==
    (/\ pc = "done"
     /\ Finished
     /\ \E i \in 1..Len(scanned) : ~HasPath(scanned[i])) =>
        /\ outcome = ExtractionGroup
        /\ "bulk" \notin Range(calls)
        /\ "refresh" \notin Range(calls)
        /\ index = index0
        /\ logged = <<>>

====
